---- MODULE Spec2Model ----
(***************************************************************************)
(* ResourceInput.vue (second variant, lines 976-2261): the editable        *)
(* surface that mixes text nodes and resource tags, its storage string,    *)
(* the resourcesMap index, the resource-list reconciliation and the key,   *)
(* paste and input handlers with their nextTick callbacks.                 *)
(*                                                                         *)
(* Strings are sequences of one-character symbols.  The marker of the      *)
(* storage format (line 1289) is the single symbol DELIM.                  *)
(* The children of editableDiv are a sequence of nodes: text nodes, tag    *)
(* spans (class resource-tag) and <br> elements.  The inner structure of   *)
(* a tag (icon, label) is not part of the model; a tag keeps the id of     *)
(* its data-resource-id attribute, a handle h that identifies the DOM      *)
(* element, and cid, the id captured by its close-button listener.         *)
(***************************************************************************)
EXTENDS Integers, Sequences, FiniteSets, TLC

\* ---------------------------------------------------------------- bounds
MaxNodes == 3
MaxText == 2
MaxRes == 2
MaxPieces == 2
MaxPosition == 8
\* the delay of the blur timer, in steps of 100 ms, and the timers pending at once
BlurDelay == 2
MaxTimers == 3
\* the resources the host creates in one run
MaxCreated == 2
\* the rounds of one flush of the scheduler
MaxRounds == 6

\* --------------------------------------------------------------- symbols
DELIM == "D"
SPACE == " "
\* the newline character of a storage string
NEWLINE == "\n"
\* a code block of getMarkedCode, fences, language and code as one symbol
CODE_BLOCK == "K"

IdA == <<"a">>
IdB == <<"b">>
IdC == <<"c">>
IdD == <<"d">>

PathLower == <<"/", "p">>
PathUpper == <<"\\", "P">>
PathOther == <<"/", "q">>

ResA == [id |-> IdA, type |-> "code", filePath |-> PathLower]
ResB == [id |-> IdB, type |-> "code", filePath |-> PathUpper]

ResourceUniverse == {ResA, ResB}

RECURSIVE SeqsUpTo(_, _)
SeqsUpTo(S, n) ==
  IF n = 0 THEN {<<>>}
  ELSE LET shorter == SeqsUpTo(S, n - 1)
       IN shorter \cup {Append(q, x) : q \in {r \in shorter : Len(r) = n - 1}, x \in S}

DistinctIds(R) == \A i, j \in 1..Len(R) : i # j => R[i].id # R[j].id

\* resource lists the host can supply: pairwise distinct ids
ResourceLists == {R \in SeqsUpTo(ResourceUniverse, MaxRes) : DistinctIds(R)}

\* -------------------------------------------------------- generic helpers
RECURSIVE Flatten(_)
Flatten(ss) == IF ss = <<>> THEN <<>> ELSE Head(ss) \o Flatten(Tail(ss))

Range(f) == {f[i] : i \in DOMAIN f}

RemoveIndex(q, i) == SubSeq(q, 1, i - 1) \o SubSeq(q, i + 1, Len(q))

InsertIndex(q, i, x) == SubSeq(q, 1, i - 1) \o <<x>> \o SubSeq(q, i, Len(q))

Min(S) == CHOOSE x \in S : \A y \in S : x <= y

\* String.prototype.trim() === '' : only white space
IsBlank(str) == \A i \in 1..Len(str) : str[i] \in {SPACE, NEWLINE}

\* ------------------------------------------------------------------ nodes
TextNode(str) == [k |-> "text", s |-> str, id |-> <<>>, h |-> 0, cid |-> <<>>]
TagNode(rid, hh, closeId) == [k |-> "tag", s |-> <<>>, id |-> rid, h |-> hh, cid |-> closeId]
BrNode == [k |-> "br", s |-> <<>>, id |-> <<>>, h |-> 0, cid |-> <<>>]

IsText(n) == n.k = "text"
IsTag(n) == n.k = "tag"
IsBr(n) == n.k = "br"

\* div.querySelectorAll('.resource-tag'), as child indices in document order
TagIndices(doc) == {i \in 1..Len(doc) : IsTag(doc[i])}
HasTags(doc) == TagIndices(doc) # {}

TokenIdSeq(doc) ==
  LET tags == SelectSeq(doc, IsTag) IN [i \in 1..Len(tags) |-> tags[i].id]
TokenIdSet(doc) == {doc[i].id : i \in TagIndices(doc)}

TextLen(doc) == Len(Flatten([i \in 1..Len(doc) |-> doc[i].s]))

\* the text of the text nodes, in order (tags contribute nothing)
PlainText(doc) == Flatten([i \in 1..Len(doc) |-> doc[i].s])

\* div.textContent.trim() === '' ; a tag's close button holds the text "x"
\* so a surface with a tag never has blank textContent
TextContentBlank(doc) == ~HasTags(doc) /\ IsBlank(PlainText(doc))

\* -------------------------------------------------------------- selection
\* A boundary point is (n, o): n = 0 is editableDiv itself and o a child
\* offset 0..Len(doc); n > 0 is the text node doc[n] and o an offset in it.
Pos(n, o) == [n |-> n, o |-> o]
NoSel == [on |-> FALSE, a |-> Pos(0, 0), b |-> Pos(0, 0)]
Caret(p) == [on |-> TRUE, a |-> p, b |-> p]
RangeSel(i, j) == [on |-> TRUE, a |-> Pos(0, i), b |-> Pos(0, j)]
Collapsed(sel) == sel.a = sel.b

\* live-range bookkeeping of the DOM when child i is removed / inserted
PosAfterRemove(p, i) ==
  IF p.n = i THEN Pos(0, i - 1)
  ELSE IF p.n > i THEN Pos(p.n - 1, p.o)
  ELSE IF p.n = 0 /\ p.o >= i THEN Pos(0, p.o - 1)
  ELSE p

PosAfterInsert(p, i) ==
  IF p.n >= i THEN Pos(p.n + 1, p.o)
  ELSE IF p.n = 0 /\ p.o >= i THEN Pos(0, p.o + 1)
  ELSE p

SelAfterRemove(sel, i) ==
  [sel EXCEPT !.a = PosAfterRemove(sel.a, i), !.b = PosAfterRemove(sel.b, i)]
SelAfterInsert(sel, i) ==
  [sel EXCEPT !.a = PosAfterInsert(sel.a, i), !.b = PosAfterInsert(sel.b, i)]

\* parent.removeChild(child i)
RemoveChild(s, i) ==
  [s EXCEPT !.doc = RemoveIndex(s.doc, i), !.sel = SelAfterRemove(s.sel, i)]

\* remove the children whose index is in I (highest first)
RECURSIVE RemoveChildren(_, _)
RemoveChildren(s, I) ==
  IF I = {} THEN s
  ELSE LET i == CHOOSE x \in I : \A y \in I : y <= x
       IN RemoveChildren(RemoveChild(s, i), I \ {i})

\* div.appendChild(node)
AppendChild(s, node) == [s EXCEPT !.doc = Append(s.doc, node)]

\* div.textContent = '' : every child is detached, ranges collapse to (div, 0)
ClearChildren(s) ==
  [s EXCEPT !.doc = <<>>,
            !.sel = IF s.sel.on THEN Caret(Pos(0, 0)) ELSE s.sel]

\* range.deleteContents() for a collapsed range or a range of whole children
DeleteContents(s) ==
  IF Collapsed(s.sel) THEN s
  ELSE LET i == s.sel.a.o
           j == s.sel.b.o
       IN [s EXCEPT !.doc = SubSeq(s.doc, 1, i) \o SubSeq(s.doc, j + 1, Len(s.doc)),
                    !.sel = Caret(Pos(0, i))]

\* range.insertNode(node) at a collapsed range: a text node is always split
\* at the offset (Text.splitText), the node goes between the halves.
\* Yields the document and the child index of the inserted node.
InsertNodeAt(doc, p, node) ==
  IF p.n = 0
  THEN [doc |-> InsertIndex(doc, p.o + 1, node), at |-> p.o + 1]
  ELSE LET t == doc[p.n].s
           left == TextNode(SubSeq(t, 1, p.o))
           right == TextNode(SubSeq(t, p.o + 1, Len(t)))
       IN [doc |-> SubSeq(doc, 1, p.n - 1) \o <<left, node, right>>
                   \o SubSeq(doc, p.n + 1, Len(doc)),
           at |-> p.n + 1]

\* ---------------------------------------------------------- serialization
\* extractTextFromNode(div, false): a tag whose id attribute is empty is skipped
StorageOfNode(n) ==
  IF IsText(n) THEN n.s
  ELSE IF IsTag(n) THEN (IF n.id # <<>> THEN <<DELIM>> \o n.id \o <<DELIM>> ELSE <<>>)
  ELSE <<>>

extractTextFromNode(doc) == Flatten([i \in 1..Len(doc) |-> StorageOfNode(doc[i])])

getContent(s) == extractTextFromNode(s.doc)

\* emit(e, v); ev is everything the component lets out, in order: the
\* events it emits, what it writes to the console and what an exposed
\* method returns to the host
Emit(s, e, v) == [s EXCEPT !.ev = Append(s.ev, [e |-> e, v |-> v])]

\* syncValue: emit('update:modelValue', getContent()); the emitted string is
\* kept in model, the event list only names the event
syncValue(s) ==
  [Emit(s, "update:modelValue", <<>>) EXCEPT !.model = getContent(s)]

\* props.resources.find(r => r.id === id): index of the first one, 0 if none
FindResource(res, rid) ==
  IF \E i \in 1..Len(res) : res[i].id = rid
  THEN Min({i \in 1..Len(res) : res[i].id = rid})
  ELSE 0

IdsOf(res) == {res[i].id : i \in 1..Len(res)}

\* child index of the element with handle hh, 0 when it is detached
IndexOfHandleIn(doc, hh) ==
  IF \E i \in TagIndices(doc) : doc[i].h = hh
  THEN CHOOSE i \in TagIndices(doc) : doc[i].h = hh
  ELSE 0

IndexOfHandle(doc, hh) == IndexOfHandleIn(doc, hh)

\* resourcesMap: Map.set / Map.delete
MapSet(m, rid, hh) == [x \in DOMAIN m \cup {rid} |-> IF x = rid THEN hh ELSE m[x]]
MapDelete(m, rid) == [x \in DOMAIN m \ {rid} |-> m[x]]
RECURSIVE MapDeleteAll(_, _)
MapDeleteAll(m, keys) ==
  IF keys = {} THEN m
  ELSE LET x == CHOOSE y \in keys : TRUE IN MapDeleteAll(MapDelete(m, x), keys \ {x})

\* document.createElement: an element handle no attached tag and no map entry uses
FreshHandle(s) ==
  Min((1..(Len(s.doc) + Cardinality(DOMAIN s.map) + 1))
      \ ({s.doc[i].h : i \in TagIndices(s.doc)} \cup Range(s.map)))

\* Handles only tell elements apart.  Between handlers the attached tags are
\* renumbered 1, 2, ... in document order and every detached element a map
\* entry still points to becomes 0: no code re-attaches a detached element.
Renumber(s) ==
  LET rank(i) == Cardinality({j \in TagIndices(s.doc) : j <= i})
      newH(hh) == IF IndexOfHandleIn(s.doc, hh) = 0 THEN 0
                  ELSE rank(IndexOfHandleIn(s.doc, hh))
  IN [s EXCEPT !.doc = [i \in 1..Len(s.doc) |->
                          IF IsTag(s.doc[i]) THEN [s.doc[i] EXCEPT !.h = rank(i)]
                          ELSE s.doc[i]],
               !.map = [x \in DOMAIN s.map |-> newH(s.map[x])]]


\* ---------------------------------------------------------------- display
\* the prefixes of the display texts, one symbol each
DESC_CODE == "C"
DESC_FILE == "F"
DESC_IMAGE == "I"
DESC_FOLDER == "O"
DESC_REF == "R"

\* getResourceDisplayText for a resource without line numbers and name
getResourceDisplayText(resource) ==
  IF resource.type = "code" THEN <<DESC_CODE>> \o resource.filePath \o <<",">>
  ELSE IF resource.type = "file" THEN <<DESC_FILE>> \o resource.filePath \o <<",">>
  ELSE IF resource.type = "image" THEN <<DESC_IMAGE, ",">>
  ELSE IF resource.type = "folder" THEN <<DESC_FOLDER>> \o resource.filePath \o <<",">>
  ELSE <<DESC_REF>> \o resource.id \o <<",">>

\* the display branch without its else: a tag whose resource is not in the
\* list shows nothing
DisplayOfNodeResolved(res, n) ==
  IF IsText(n) THEN n.s
  ELSE IF IsTag(n) /\ n.id # <<>> /\ FindResource(res, n.id) # 0
       THEN getResourceDisplayText(res[FindResource(res, n.id)])
       ELSE <<>>

\* extractTextFromNode(div, true) on one child
DisplayOfNode(res, n) ==
  IF IsText(n) THEN n.s
  ELSE IF IsTag(n)
       THEN IF n.id # <<>>
            THEN IF FindResource(res, n.id) # 0
                 THEN getResourceDisplayText(res[FindResource(res, n.id)])
                 ELSE <<DESC_REF>> \o n.id
            ELSE <<>>
       ELSE <<>>

getDisplayContent(s) == Flatten([i \in 1..Len(s.doc) |-> DisplayOfNode(s.res, s.doc[i])])

\* ------------------------------------------------------------------ parse
\* first index >= from holding DELIM, 0 if none
NextDelim(content, from) ==
  IF \E i \in from..Len(content) : content[i] = DELIM
  THEN Min({i \in from..Len(content) : content[i] = DELIM})
  ELSE 0

\* the loop without its else branch: a marker that names no resource is dropped
RECURSIVE ParseLoopDropping(_, _, _)
ParseLoopDropping(s, content, lastIndex) ==
  LET open == NextDelim(content, lastIndex)
      close == IF open = 0 THEN 0 ELSE NextDelim(content, open + 1)
  IN IF close = 0
     THEN IF lastIndex <= Len(content)
          THEN AppendChild(s, TextNode(SubSeq(content, lastIndex, Len(content))))
          ELSE s
     ELSE LET s1 == IF open > lastIndex
                    THEN AppendChild(s, TextNode(SubSeq(content, lastIndex, open - 1)))
                    ELSE s
              found == FindResource(s.res, SubSeq(content, open + 1, close - 1))
              hh == FreshHandle(s1)
              s2 == IF found # 0
                    THEN [AppendChild(s1, TagNode(s.res[found].id, hh, s.res[found].id))
                            EXCEPT !.map = MapSet(s1.map, s.res[found].id, hh)]
                    ELSE s1
          IN ParseLoopDropping(s2, content, close + 1)

\* the while loop of parseContentWithResources over the matches of the
\* non-greedy pattern DELIM (.*?) DELIM, scanning from lastIndex
RECURSIVE ParseLoop(_, _, _)
ParseLoop(s, content, lastIndex) ==
  LET open == NextDelim(content, lastIndex)
      close == IF open = 0 THEN 0 ELSE NextDelim(content, open + 1)
  IN IF close = 0
     THEN \* no further match: the remaining text
          IF lastIndex <= Len(content)
          THEN AppendChild(s, TextNode(SubSeq(content, lastIndex, Len(content))))
          ELSE s
     ELSE LET s1 == IF open > lastIndex
                    THEN AppendChild(s, TextNode(SubSeq(content, lastIndex, open - 1)))
                    ELSE s
              resourceId == SubSeq(content, open + 1, close - 1)
              found == FindResource(s.res, resourceId)
              hh == FreshHandle(s1)
              s2 == IF found # 0
                    THEN [AppendChild(s1, TagNode(s.res[found].id, hh, s.res[found].id))
                            EXCEPT !.map = MapSet(s1.map, s.res[found].id, hh)]
                    ELSE AppendChild(s1, TextNode(SubSeq(content, open, close)))
          IN ParseLoop(s2, content, close + 1)

\* parseContentWithResources: clears the surface (not resourcesMap), rebuilds it
parseContentWithResources(s, content) ==
  LET parsed == ParseLoop(ClearChildren(s), content, 1)
  IN [parsed EXCEPT !.ticks = Append(parsed.ticks, "ensure")]

\* setContent
setContent(s, content) ==
  IF \E i \in 1..Len(content) : content[i] = DELIM
  THEN parseContentWithResources(s, content)
  ELSE IF content = <<>> THEN ClearChildren(s)
       ELSE AppendChild(ClearChildren(s), TextNode(content))

\* Array.from(content.matchAll(pattern)).map(m => m[1]): the ids between the
\* markers of content, in order, scanning from index from
RECURSIVE MarkedIds(_, _)
MarkedIds(content, from) ==
  LET open == NextDelim(content, from)
      close == IF open = 0 THEN 0 ELSE NextDelim(content, open + 1)
  IN IF close = 0 THEN <<>>
     ELSE <<SubSeq(content, open + 1, close - 1)>> \o MarkedIds(content, close + 1)

\* JSON.stringify(a.sort()) === JSON.stringify(b.sort()): the same ids, each
\* as many times
SameSorted(a, b) ==
  \A rid \in Range(a) \cup Range(b) :
    Cardinality({i \in 1..Len(a) : a[i] = rid}) = Cardinality({i \in 1..Len(b) : b[i] = rid})

\* content.includes(marker)
HasMarker(content) == \E i \in 1..Len(content) : content[i] = DELIM

\* the callback of watch(() => props.modelValue)
watchModelValue(s, newVal) ==
  LET currentContent == getContent(s)
  IN IF newVal = currentContent THEN s
     ELSE IF /\ newVal # <<>>
             /\ currentContent # <<>>
             /\ HasMarker(newVal)
             /\ HasMarker(currentContent)
             /\ SameSorted(MarkedIds(newVal, 1), MarkedIds(currentContent, 1))
          THEN s
          ELSE setContent(s, newVal)

\* ------------------------------------------------------- path matching
\* normalizePath: back slashes become slashes, then toLowerCase()
NormalizeChar(c) ==
  IF c = "\\" THEN "/"
  ELSE IF c = "P" THEN "p"
  ELSE IF c = "Q" THEN "q"
  ELSE c

normalizePath(path) == [i \in 1..Len(path) |-> NormalizeChar(path[i])]

\* the test of findTagByFilePath on the tag at child index i
SameFileTag(s, resource, i) ==
  LET found == FindResource(s.res, s.doc[i].id)
  IN /\ found # 0
     /\ s.res[found].type = "code"
     /\ normalizePath(s.res[found].filePath) = normalizePath(resource.filePath)

\* findTagByFilePath: child index of the first matching tag, 0 for null.
\* The tag's resource is looked up in props.resources.
findTagByFilePath(s, resource) ==
  IF resource.type # "code" \/ resource.filePath = <<>> THEN 0
  ELSE IF \E i \in TagIndices(s.doc) : SameFileTag(s, resource, i)
       THEN Min({i \in TagIndices(s.doc) : SameFileTag(s, resource, i)})
       ELSE 0

\* ------------------------------------------------------ deferred cleanup
\* cleanupEmptyNodes: blank text nodes and empty non-tag elements (<br>) go
cleanupEmptyNodes(s) ==
  RemoveChildren(s, {i \in 1..Len(s.doc) :
                       \/ IsText(s.doc[i]) /\ IsBlank(s.doc[i].s)
                       \/ IsBr(s.doc[i])})

\* the while loop of ensureInputArea: trailing blank text nodes and a
\* trailing <br> that follows a <br> are removed
RECURSIVE StripTrailing(_)
StripTrailing(s) ==
  LET n == Len(s.doc)
  IN IF n = 0 THEN s
     ELSE IF IsText(s.doc[n]) /\ IsBlank(s.doc[n].s) THEN StripTrailing(RemoveChild(s, n))
     ELSE IF IsBr(s.doc[n]) /\ n > 1 /\ IsBr(s.doc[n - 1]) THEN StripTrailing(RemoveChild(s, n))
     ELSE s

\* ensureInputArea (ensureMinHeight only touches the style)
ensureInputArea(s) ==
  IF ~HasTags(s.doc) THEN s
  ELSE LET s1 == StripTrailing(s)
           n == Len(s1.doc)
       IN IF n > 0 /\ IsTag(s1.doc[n]) THEN AppendChild(s1, BrNode)
          ELSE IF n = 0 \/ (IsText(s1.doc[n]) /\ IsBlank(s1.doc[n].s))
               THEN AppendChild(s1, BrNode)
               ELSE s1

\* nextTick(cb)
Defer(s, cb) == [s EXCEPT !.ticks = Append(s.ticks, cb)]

\* --------------------------------------------------------- token insertion
\* insertResourceTag
insertResourceTag(s, resource) ==
  IF resource.id \in DOMAIN s.map THEN s
  ELSE LET hh == FreshHandle(s)
           tag == TagNode(resource.id, hh, resource.id)
           placed ==
             IF s.sel.on
             THEN LET s1 == DeleteContents(s)
                      ins == InsertNodeAt(s1.doc, s1.sel.a, tag)
                  IN [s1 EXCEPT !.doc = InsertIndex(ins.doc, ins.at + 1, TextNode(<<SPACE>>)),
                                !.sel = Caret(Pos(0, ins.at + 1))]
             ELSE AppendChild(AppendChild(s, tag), TextNode(<<SPACE>>))
           deferred == Defer(placed, "ensure")
       IN syncValue([deferred EXCEPT !.map = MapSet(deferred.map, resource.id, hh)])

\* the iteration without its two lookups: every resource gets a new tag
MergeResourceBlind(s, resource) ==
  insertResourceTag([s EXCEPT !.map = MapDelete(s.map, resource.id)], resource)

\* one iteration of resources.forEach in updateResources
MergeResource(s, resource) ==
  IF resource.id \in DOMAIN s.map THEN s
  ELSE LET sameFileTag == IF resource.type = "code" /\ resource.filePath # <<>>
                          THEN findTagByFilePath(s, resource) ELSE 0
       IN IF sameFileTag # 0
          THEN LET oldResourceId == s.doc[sameFileTag].id
               IN IF oldResourceId # resource.id
                  THEN [s EXCEPT !.doc[sameFileTag].id = resource.id,
                                 !.map = MapSet(MapDelete(s.map, oldResourceId),
                                                resource.id, s.doc[sameFileTag].h)]
                  ELSE s
          ELSE insertResourceTag(s, resource)

RECURSIVE MergeAll(_, _, _)
MergeAll(s, resources, i) ==
  IF i > Len(resources) THEN s
  ELSE MergeAll(MergeResource(s, resources[i]), resources, i + 1)

\* the first forEach of updateResources: tags whose id is not in the new list
PruneTags(s, resources) ==
  LET gone == {i \in TagIndices(s.doc) : s.doc[i].id \notin IdsOf(resources)}
  IN [RemoveChildren(s, gone)
        EXCEPT !.map = MapDeleteAll(s.map, {s.doc[i].id : i \in gone})]

\* updateResources: prune, merge, then two deferred callbacks
updateResources(s, resources) ==
  Defer(Defer(MergeAll(PruneTags(s, resources), resources, 1), "updateCleanup"), "sync")

\* removeResource
removeResource(s, resourceId) ==
  IF resourceId \in DOMAIN s.map /\ IndexOfHandle(s.doc, s.map[resourceId]) # 0
  THEN LET removed == RemoveChild(s, IndexOfHandle(s.doc, s.map[resourceId]))
           synced == syncValue([removed EXCEPT !.map = MapDelete(s.map, resourceId)])
       IN Defer(Emit(synced, "resource-removed", resourceId), "removeCleanup")
  ELSE s

\* ------------------------------------------------------ nextTick callbacks
\* the callback named cb, run on the state s
RunCallback(s, cb) ==
  IF cb = "ensure" THEN ensureInputArea(s)
  ELSE IF cb = "updateCleanup"
       THEN IF TextContentBlank(s.doc) THEN ClearChildren(s)
            ELSE ensureInputArea(cleanupEmptyNodes(s))
  ELSE IF cb = "sync" THEN syncValue(s)
  ELSE IF cb = "removeCleanup"
       THEN IF TextContentBlank(s.doc) THEN ClearChildren(s)
            ELSE cleanupEmptyNodes(s)
  ELSE \* "inputEmpty", the first branch of handleInput
       IF TextContentBlank(s.doc) THEN ClearChildren(s) ELSE s

\* every pending callback, in order
RECURSIVE Settle(_)
Settle(s) ==
  IF s.ticks = <<>> THEN s
  ELSE Settle(RunCallback([s EXCEPT !.ticks = Tail(s.ticks)], Head(s.ticks)))

\* ------------------------------------------------------------ key handlers
\* insertNewLine
insertNewLine(s) ==
  IF ~s.sel.on THEN s
  ELSE LET s1 == DeleteContents(s)
           ins == InsertNodeAt(s1.doc, s1.sel.a, BrNode)
       IN syncValue([s1 EXCEPT !.doc = ins.doc, !.sel = Caret(Pos(0, ins.at))])

\* handleBackspace: a collapsed caret at offset 0 of a node whose previous
\* sibling is a tag removes the resource of that tag's id
handleBackspace(s) ==
  IF ~s.sel.on THEN s
  ELSE IF /\ Collapsed(s.sel)
          /\ s.sel.a.o = 0
          /\ s.sel.a.n > 1
          /\ IsTag(s.doc[s.sel.a.n - 1])
          /\ s.doc[s.sel.a.n - 1].id # <<>>
       THEN removeResource(s, s.doc[s.sel.a.n - 1].id)
       ELSE s

\* handleKeydown without the modifier test: Enter always breaks the line
handleKeydownBreaking(s, key, ctrlOrMeta, isComposing) ==
  IF key = "Enter" /\ ~isComposing
  THEN Emit(insertNewLine(s), IF ctrlOrMeta THEN "ctrl-enter" ELSE "enter", <<>>)
  ELSE IF key = "ArrowUp" THEN Emit(s, "arrow-up", <<>>)
  ELSE IF key = "Backspace" THEN handleBackspace(s)
  ELSE s

\* handleKeydown for the keys it looks at
handleKeydown(s, key, ctrlOrMeta, isComposing) ==
  IF key = "Enter" /\ ~isComposing
  THEN IF ctrlOrMeta THEN Emit(insertNewLine(s), "ctrl-enter", <<>>)
       ELSE Emit(s, "enter", <<>>)
  ELSE IF key = "ArrowUp" THEN Emit(s, "arrow-up", <<>>)
  ELSE IF key = "Backspace" THEN handleBackspace(s)
  ELSE s

\* handlePaste building the clipboard text the way setContent builds content:
\* a marker of a known resource becomes a tag
handlePasteParsing(s, text) ==
  IF ~s.sel.on THEN s
  ELSE LET s1 == DeleteContents(s)
           found == IF Len(text) >= 2 /\ Head(text) = DELIM /\ text[Len(text)] = DELIM
                    THEN FindResource(s.res, SubSeq(text, 2, Len(text) - 1))
                    ELSE 0
           node == IF found # 0
                   THEN TagNode(s.res[found].id, FreshHandle(s1), s.res[found].id)
                   ELSE TextNode(text)
           ins == InsertNodeAt(s1.doc, s1.sel.a, node)
       IN syncValue([s1 EXCEPT !.doc = ins.doc, !.sel = Caret(Pos(0, ins.at))])

\* handlePaste: the clipboard text becomes one new text node at the caret
handlePaste(s, text) ==
  IF ~s.sel.on THEN s
  ELSE LET s1 == DeleteContents(s)
           ins == InsertNodeAt(s1.doc, s1.sel.a, TextNode(text))
       IN syncValue([s1 EXCEPT !.doc = ins.doc, !.sel = Caret(Pos(0, ins.at))])

\* handleInput, after the browser has edited the surface
handleInput(s) ==
  Emit(syncValue(Defer(s, IF TextContentBlank(s.doc) THEN "inputEmpty" ELSE "ensure")),
       "input", <<>>)

\* the browser's own edit on a typed character: the selection is replaced,
\* the character joins the text node at the caret or a new text node
BrowserType(s, c) ==
  LET s1 == DeleteContents(s)
      p == s1.sel.a
      d == s1.doc
  IN IF p.n > 0
     THEN [s1 EXCEPT !.doc[p.n].s = SubSeq(d[p.n].s, 1, p.o) \o <<c>>
                                      \o SubSeq(d[p.n].s, p.o + 1, Len(d[p.n].s)),
                     !.sel = Caret(Pos(p.n, p.o + 1))]
     ELSE IF p.o >= 1 /\ IsText(d[p.o])
     THEN [s1 EXCEPT !.doc[p.o].s = Append(d[p.o].s, c),
                     !.sel = Caret(Pos(p.o, Len(d[p.o].s) + 1))]
     ELSE IF p.o < Len(d) /\ IsText(d[p.o + 1])
     THEN [s1 EXCEPT !.doc[p.o + 1].s = <<c>> \o d[p.o + 1].s,
                     !.sel = Caret(Pos(p.o + 1, 1))]
     ELSE [s1 EXCEPT !.doc = InsertIndex(d, p.o + 1, TextNode(<<c>>)),
                     !.sel = Caret(Pos(p.o + 1, 1))]

\* ------------------------------------------------------------------ caret
\* filePath.split(/[/\\]/).pop(): what follows the last separator
LastSegment(path) ==
  LET seps == {i \in 1..Len(path) : path[i] \in {"/", "\\"}}
  IN IF seps = {} THEN path
     ELSE SubSeq(path, (CHOOSE i \in seps : \A j \in seps : j <= i) + 1, Len(path))

\* getResourceLabel for a resource without line numbers and without a name
getResourceLabel(resource) ==
  IF resource.type \in {"code", "file"}
  THEN LET filePath == IF resource.filePath # <<>> THEN resource.filePath
                       ELSE <<resource.type>>
       IN IF LastSegment(filePath) # <<>> THEN LastSegment(filePath) ELSE filePath
  ELSE IF resource.type = "image" THEN <<"image">>
  ELSE resource.id

\* the text of the label span of a tag: the label of the resource the tag
\* was built or last re-keyed for
TagLabel(n) == getResourceLabel(CHOOSE r \in ResourceUniverse : r.id = n.id)

\* the Text nodes under child i in document order, each with its length: a
\* text child itself; for a tag the text of its close button, one character,
\* and the text of its label; none for <br>.  part tells them apart.
TextsOfChild(d, i) ==
  IF IsText(d[i]) THEN <<[n |-> i, part |-> 0, len |-> Len(d[i].s)]>>
  ELSE IF IsTag(d[i])
       THEN <<[n |-> i, part |-> 1, len |-> 1],
              [n |-> i, part |-> 2, len |-> Len(TagLabel(d[i]))]>>
       ELSE <<>>

\* document.createTreeWalker(root, NodeFilter.SHOW_TEXT)
WalkerTexts(d) == Flatten([i \in 1..Len(d) |-> TextsOfChild(d, i)])

\* the while loop of getTextNodeAtPosition from the k-th Text node on:
\* the index of the node it returns, 0 for null
RECURSIVE WalkFrom(_, _, _, _)
WalkFrom(w, k, currentPos, position) ==
  IF k > Len(w) THEN 0
  ELSE IF currentPos + w[k].len >= position THEN k
  ELSE WalkFrom(w, k + 1, currentPos + w[k].len, position)

getTextNodeAtPosition(d, position) == WalkFrom(WalkerTexts(d), 1, 0, position)

\* a boundary point in the Text node t of the walker: a point inside a tag
\* carries the part of the tag it is in
PointIn(t, o) ==
  IF t.part = 0 THEN Pos(t.n, o) ELSE [n |-> t.n, o |-> o, part |-> t.part]

InTag(p) == "part" \in DOMAIN p

\* setCursorPosition
setCursorPosition(s, position) ==
  LET w == WalkerTexts(s.doc)
      k == getTextNodeAtPosition(s.doc, position)
  IN IF k = 0 THEN s
     ELSE [s EXCEPT !.sel = Caret(PointIn(w[k], Min({position, w[k].len})))]

\* handleContainerClick on the container itself while the surface is not
\* focused: div.focus() moves no range; the caret goes behind the last child
\* when the surface has tags and its textContent is blank
handleContainerClick(s) ==
  IF HasTags(s.doc) /\ TextContentBlank(s.doc) /\ Len(s.doc) > 0
  THEN [s EXCEPT !.sel = Caret(Pos(0, Len(s.doc)))]
  ELSE s

\* ------------------------------------------------------------- the inputs
Marker(rid) == <<DELIM>> \o rid \o <<DELIM>>

\* an id no resource of the universe has
IdUnknown == <<"z">>

Pieces == {<<"x">>, <<SPACE>>, Marker(IdA), Marker(IdB)}

\* content strings the host can supply
ContentInputs == {Flatten(q) : q \in SeqsUpTo(Pieces, MaxPieces)}

\* storage strings with stray delimiters and markers of unknown ids
ParsePieces == {<<"x">>, <<DELIM>>, Marker(IdA), Marker(IdUnknown)}

ParseInputs == {Flatten(q) : q \in SeqsUpTo(ParsePieces, MaxPieces)}

PasteTexts == {<<>>, <<"x">>}

\* clipboard texts that hold the marker of a resource
MarkerTexts == {Marker(IdA), Marker(IdB)}

TypedChars == {"x", SPACE}

\* the keys of a keydown during a composition.  The browser reports keyCode
\* 229 for every one of them, whatever the key: code still names Enter and
\* Backspace, an ArrowUp press is "Process", a key no test of handleKeydown
\* matches.
ComposingKeys == {"Enter", "Backspace", "Process"}

\* the selections a user makes before a key or a paste: a caret anywhere,
\* one child, or everything
Selections(d) ==
  {Caret(Pos(0, o)) : o \in 0..Len(d)}
  \cup UNION {{Caret(Pos(n, o)) : o \in 0..Len(d[n].s)} : n \in {i \in 1..Len(d) : IsText(d[i])}}
  \cup {RangeSel(i - 1, i) : i \in 1..Len(d)}
  \cup {RangeSel(0, Len(d)) : i \in 1..Len(d)}

\* the selections standing when the host changes the list: none, a caret at
\* either end, or everything
HostSelections(d) ==
  {NoSel, Caret(Pos(0, 0)), Caret(Pos(0, Len(d)))} \cup {RangeSel(0, Len(d)) : i \in 1..Len(d)}

WithinBounds(s) == Len(s.doc) <= MaxNodes /\ TextLen(s.doc) <= MaxText

\* -------------------------------------------------------------------- focus
\* The focus of the surface: f.isFocused is the ref of that name, f.timers the
\* setTimeout callbacks of handleEditableBlur not yet run, oldest first, each
\* with the time left before it runs, in steps of 100 ms.  refocused notes,
\* for the focus loss that started the timer, that a focus event has come
\* since; the code keeps no such record.
BlurTimer == [left |-> BlurDelay, refocused |-> FALSE]

handleEditableFocus(f) ==
  [f EXCEPT !.isFocused = TRUE,
            !.timers = [i \in 1..Len(@) |-> [@[i] EXCEPT !.refocused = TRUE]],
            !.ev = Append(@, [e |-> "focus", v |-> <<>>])]

handleEditableBlur(f) ==
  [f EXCEPT !.timers = Append(@, BlurTimer)]

\* the callback of the oldest timer; active: document.activeElement is
\* inside the surface
blurTimeout(f, active) ==
  IF ~active
  THEN [f EXCEPT !.isFocused = FALSE, !.timers = Tail(@),
                 !.ev = Append(@, [e |-> "blur", v |-> <<>>])]
  ELSE [f EXCEPT !.timers = Tail(@)]

\* 100 ms pass
Elapsed(timers) == [i \in 1..Len(timers) |-> [timers[i] EXCEPT !.left = @ - 1]]

\* --------------------------------------------------------------------- host
\* ChatPage around the component.  A record c of the composed system is a
\* component record with the host's refs beside it: model is question (the
\* v-model ref, written by every update:modelValue), hres is resources.value,
\* hist is historyQuestion, busy is answerStatus, created counts the
\* resources the host has made.  res and prop are the two props as the
\* component last received them; touched says that the host has written or
\* mutated its list since.  The focus is left out: blur() and focus() raise
\* the focus events of the surface, which FocusOut and FocusIn are, and no
\* handler of the content reads the focus.
HostIds == <<IdA, IdB, IdC, IdD>>

SelectionPaths == {PathLower, PathUpper, PathOther}

\* handleSelectionChange; selectCode: data.selectCode is not empty
handleSelectionChange(c, selectCode, filePath) ==
  IF selectCode
  THEN IF \E i \in 1..Len(c.hres) :
            /\ c.hres[i].type = "code"
            /\ normalizePath(c.hres[i].filePath) = normalizePath(filePath)
            /\ filePath # <<>>
       THEN [c EXCEPT !.touched = TRUE]
       ELSE [c EXCEPT !.hres = Append(@, [id |-> HostIds[c.created + 1], type |-> "code",
                                          filePath |-> filePath]),
                      !.created = @ + 1,
                      !.touched = TRUE]
  ELSE [c EXCEPT !.hres = SelectSeq(@, LAMBDA r : r.type # "code"), !.touched = TRUE]

\* clearSelected
clearSelected(c) ==
  [c EXCEPT !.hres = SelectSeq(@, LAMBDA r : r.type # "code"), !.touched = TRUE]

\* handleResourceRemoved
handleResourceRemoved(c, resourceId) ==
  [c EXCEPT !.hres = SelectSeq(@, LAMBDA r : r.id # resourceId), !.touched = TRUE]

RECURSIVE JoinBlocks(_, _)
JoinBlocks(n, sep) ==
  IF n = 0 THEN <<>>
  ELSE IF n = 1 THEN <<CODE_BLOCK>>
  ELSE <<CODE_BLOCK>> \o sep \o JoinBlocks(n - 1, sep)

\* the questionText of sendMessage
QuestionText(c) ==
  LET n == Len(SelectSeq(c.hres, LAMBDA r : r.type = "code"))
  IN IF n = 0 THEN c.model
     ELSE IF c.model # <<>>
          THEN c.model \o <<NEWLINE>> \o JoinBlocks(n, <<NEWLINE>>) \o <<NEWLINE>>
          ELSE JoinBlocks(n, <<NEWLINE, NEWLINE>>)

\* sendMessage
sendMessage(c) ==
  IF c.busy THEN c
  ELSE IF IsBlank(c.model) /\ Len(c.hres) = 0 THEN c
  ELSE Defer([c EXCEPT !.hist = QuestionText(c), !.busy = TRUE], "sendReset")

\* handleEnterKey
handleEnterKey(c) ==
  IF c.busy THEN c
  ELSE LET sent == sendMessage([c EXCEPT !.hist = c.model])
       IN [sent EXCEPT !.model = <<>>]

\* handleArrowUpKey without the test of the question: every recall replaces
handleArrowUpKeyOverwriting(c) ==
  IF IsBlank(c.hist) THEN c
  ELSE Defer([c EXCEPT !.model = c.hist], "recallCursor")

\* handleArrowUpKey on an ArrowUp keydown (keyCode 38)
handleArrowUpKey(c) ==
  IF IsBlank(c.hist) THEN c
  ELSE IF IsBlank(c.model) THEN Defer([c EXCEPT !.model = c.hist], "recallCursor")
  ELSE c

\* the listeners of the template, on the events the handler let out
RECURSIVE HostListeners(_, _)
HostListeners(c, evs) ==
  IF evs = <<>> THEN c
  ELSE LET e == Head(evs)
           c1 == IF e.e = "resource-removed" THEN handleResourceRemoved(c, e.v)
                 ELSE IF e.e = "enter" THEN handleEnterKey(c)
                 ELSE IF e.e = "arrow-up" THEN handleArrowUpKey(c)
                 ELSE c
       IN HostListeners(c1, Tail(evs))

\* a nextTick callback of the host or of the component
RunHostCallback(c, cb) ==
  IF cb = "sendReset"
  THEN clearSelected([c EXCEPT !.model = <<>>, !.hres = <<>>, !.touched = TRUE])
  ELSE IF cb = "recallCursor" THEN setCursorPosition(c, Len(c.model))
  ELSE RunCallback(c, cb)

\* the callbacks pending now, in order; none of them registers another
RECURSIVE RunCallbacks(_, _)
RunCallbacks(c, cbs) ==
  IF cbs = <<>> THEN c
  ELSE RunCallbacks(RunHostCallback(c, Head(cbs)), Tail(cbs))

\* one flush of the scheduler: the host renders, the component receives its
\* props and runs the watcher of modelValue, then the watcher of resources;
\* what the watchers emit is rendered again in the same flush
RECURSIVE FlushJobs(_, _)
FlushJobs(c, rounds) ==
  IF rounds = 0 \/ (c.model = c.prop /\ ~c.touched) THEN c
  ELSE LET received == [c EXCEPT !.res = c.hres, !.prop = c.model, !.touched = FALSE]
           first == IF c.model # c.prop THEN watchModelValue(received, c.model) ELSE received
           second == IF c.touched THEN updateResources(first, first.res) ELSE first
       IN FlushJobs(second, rounds - 1)

\* flushes and the callbacks behind them until nothing is pending
RECURSIVE HostSettle(_, _)
HostSettle(c, rounds) ==
  LET flushed == FlushJobs(c, MaxRounds)
  IN IF flushed.ticks = <<>> \/ rounds = 0 THEN flushed
     ELSE HostSettle(RunCallbacks([flushed EXCEPT !.ticks = <<>>], flushed.ticks), rounds - 1)

\* a task of the composed system: c is the state the handler leaves, the
\* listeners run on its events, then the scheduler.  early: the handler
\* registered its callbacks before it wrote anything reactive, so they run
\* before the flush.
HostTask(c, early) ==
  LET heard == HostListeners(c, c.ev)
      started == IF early THEN RunCallbacks([heard EXCEPT !.ticks = <<>>], heard.ticks)
                 ELSE heard
  IN Renumber(HostSettle(started, MaxRounds))

\* ------------------------------------------------------------------ state
\* doc: the children of editableDiv; resourcesMap: id -> element handle;
\* resources: props.resources; lastEmit: the last update:modelValue payload;
\* events: what the last task let out, in order.
VARIABLES doc, resourcesMap, resources, lastEmit, events

\* isFocused: the ref; activeInside: document.activeElement is inside the
\* surface; blurTimers: the pending callbacks of handleEditableBlur.
VARIABLES isFocused, activeInside, blurTimers

focusVars == <<isFocused, activeInside, blurTimers>>

\* historyQuestion and answerStatus: the refs of ChatPage; created: how many
\* resources ChatPage has made.  In the composed system resources is the
\* list of ChatPage and lastEmit its question.
VARIABLES historyQuestion, answerStatus, created

hostVars == <<historyQuestion, answerStatus, created>>

vars ==
  <<doc, resourcesMap, resources, lastEmit, events, isFocused, activeInside, blurTimers,
    historyQuestion, answerStatus, created>>

\* The component between two tasks, as the operators take it.  A task is a
\* handler followed by the nextTick callbacks it registered: user events and
\* host calls are tasks of the event loop, the callbacks are microtasks and
\* run before the next task.  The selection is the user's between two tasks,
\* so every handler takes the selection x made by then.  props.modelValue
\* is the host's: what the host makes of an emitted value is its own, and
\* the content it hands back arrives through SetContent.
At(x) ==
  [doc |-> doc, sel |-> x, map |-> resourcesMap, res |-> resources,
   ticks |-> <<>>, ev |-> <<>>, model |-> lastEmit]

cur == At(NoSel)

\* the state a task leaves, callbacks included
Task(n) == Renumber(Settle(n))

Store(t) ==
  /\ doc' = t.doc
  /\ resourcesMap' = t.map
  /\ resources' = t.res
  /\ lastEmit' = t.model
  /\ events' = t.ev
  /\ UNCHANGED focusVars
  /\ UNCHANGED hostVars

\* a task whose outcome stays within the bounds
Commit(n) ==
  LET t == Task(n)
  IN WithinBounds(t) /\ Store(t)

\* setup and onMounted with the default props: updateResources([])
Unmounted ==
  [doc |-> <<>>, sel |-> NoSel, map |-> <<>>, res |-> <<>>,
   ticks |-> <<>>, ev |-> <<>>, model |-> <<>>]

onMounted == updateResources(Unmounted, <<>>)

Init ==
  /\ doc = Task(onMounted).doc
  /\ resourcesMap = Task(onMounted).map
  /\ resources = Task(onMounted).res
  /\ lastEmit = Task(onMounted).model
  /\ events = Task(onMounted).ev
  /\ isFocused = FALSE
  /\ activeInside = FALSE
  /\ blurTimers = <<>>
  /\ historyQuestion = <<>>
  /\ answerStatus = FALSE
  /\ created = 0

\* ---------------------------------------------------------------- actions
\* watch(() => props.resources): the prop already holds the new list
UpdateOf(x, R) == updateResources([At(x) EXCEPT !.res = R], R)

WatchResources ==
  \E R \in ResourceLists, x \in HostSelections(doc) :
    Commit(UpdateOf(x, R))

\* setContent(content), exposed to the host and called by the modelValue watcher
SetContent ==
  \E content \in ContentInputs \cup {getContent(cur)} :
    Commit(setContent(cur, content))

\* props.modelValue changes to content: the watcher runs
WatchModelValue ==
  \E content \in ContentInputs :
    Commit(watchModelValue(cur, content))

\* setContent on any storage string, however long the surface it builds
ParseContent ==
  \E content \in ParseInputs \cup {getContent(cur)} :
    Store(Task(setContent(cur, content)))

\* getDisplayContent(), exposed to the host
GetDisplayContent ==
  Commit(Emit(cur, "getDisplayContent", getDisplayContent(cur)))

\* keydown Enter, with or without Ctrl/Cmd, during a composition or not
KeydownEnter ==
  \E ctrlOrMeta \in BOOLEAN, isComposing \in BOOLEAN :
    \E x \in IF ctrlOrMeta /\ ~isComposing THEN Selections(doc) \cup {NoSel} ELSE {NoSel} :
      Commit(handleKeydown(At(x), "Enter", ctrlOrMeta, isComposing))

KeydownArrowUp ==
  Commit(handleKeydown(cur, "ArrowUp", FALSE, FALSE))

\* keydown Backspace, during a composition or not
KeydownBackspace ==
  \E x \in Selections(doc), isComposing \in BOOLEAN :
    Commit(handleKeydown(At(x), "Backspace", FALSE, isComposing))

Paste ==
  \E text \in PasteTexts, x \in Selections(doc) :
    Commit(handlePaste(At(x), text))

\* a paste of a text that holds a marker, onto a surface within the bounds
PasteMarker ==
  /\ WithinBounds(cur)
  /\ \E text \in MarkerTexts, x \in Selections(doc) :
       Store(Task(handlePaste(At(x), text)))

\* setCursorPosition(position), exposed to the host
SetCursorPosition ==
  \E position \in 0..MaxPosition :
    Commit(setCursorPosition(cur, position))

\* a click on the container next to the surface
ContainerClick ==
  Commit(handleContainerClick(cur))

\* a typed character: the browser edits the surface, then the input event
TypeChar ==
  \E c \in TypedChars, x \in Selections(doc) :
    Commit(handleInput(BrowserType(At(x), c)))

\* a click on the close button of the tag at child index i
ClickClose ==
  \E i \in TagIndices(doc) :
    Commit(removeResource(cur, doc[i].cid))

\* the focus state as the focus handlers take it
Focus == [isFocused |-> isFocused, timers |-> blurTimers, ev |-> <<>>]

StoreFocus(f, active) ==
  /\ isFocused' = f.isFocused
  /\ blurTimers' = f.timers
  /\ events' = f.ev
  /\ activeInside' = active
  /\ UNCHANGED <<doc, resourcesMap, resources, lastEmit>>
  /\ UNCHANGED hostVars

\* the surface gains focus: the user clicks or tabs into it, or focus()
FocusIn ==
  /\ ~activeInside
  /\ StoreFocus(handleEditableFocus(Focus), TRUE)

\* the surface loses focus: the user clicks or tabs elsewhere, or blur()
FocusOut ==
  /\ activeInside
  /\ Len(blurTimers) < MaxTimers
  /\ StoreFocus(handleEditableBlur(Focus), FALSE)

\* 100 ms pass while a timer is pending and none is due
TimePasses ==
  /\ blurTimers # <<>>
  /\ \A i \in 1..Len(blurTimers) : blurTimers[i].left > 0
  /\ blurTimers' = Elapsed(blurTimers)
  /\ events' = <<>>
  /\ UNCHANGED <<doc, resourcesMap, resources, lastEmit, isFocused, activeInside>>
  /\ UNCHANGED hostVars

\* the oldest timer is due: its callback runs
BlurTimeout ==
  /\ blurTimers # <<>>
  /\ blurTimers[1].left = 0
  /\ StoreFocus(blurTimeout(Focus, activeInside), activeInside)

\* the composed system between two tasks
Composed(x) ==
  [doc |-> doc, sel |-> x, map |-> resourcesMap, res |-> resources,
   ticks |-> <<>>, ev |-> <<>>, model |-> lastEmit,
   hres |-> resources, prop |-> lastEmit, touched |-> FALSE,
   hist |-> historyQuestion, busy |-> answerStatus, created |-> created]

StoreHost(t) ==
  /\ WithinBounds(t)
  /\ doc' = t.doc
  /\ resourcesMap' = t.map
  /\ resources' = t.hres
  /\ lastEmit' = t.model
  /\ events' = t.ev
  /\ historyQuestion' = t.hist
  /\ answerStatus' = t.busy
  /\ created' = t.created
  /\ UNCHANGED focusVars

\* a selection-change message of the editor reaches ChatPage
HostSelectionChange ==
  \E selectCode \in BOOLEAN, filePath \in SelectionPaths, x \in HostSelections(doc) :
    /\ selectCode => created < MaxCreated
    /\ LET c == handleSelectionChange(Composed(x), selectCode, filePath)
       IN Len(c.hres) <= MaxRes /\ StoreHost(HostTask(c, FALSE))

\* the answer is complete
HostAnswerDone ==
  /\ answerStatus
  /\ answerStatus' = FALSE
  /\ events' = <<>>
  /\ UNCHANGED <<doc, resourcesMap, resources, lastEmit, historyQuestion, created>>
  /\ UNCHANGED focusVars

\* the user clicks the close button of the tag at child index i
HostClickClose ==
  \E i \in TagIndices(doc) :
    StoreHost(HostTask(removeResource(Composed(NoSel), doc[i].cid), FALSE))

\* the user pastes into the surface
HostPaste ==
  \E text \in PasteTexts, x \in Selections(doc) :
    StoreHost(HostTask(handlePaste(Composed(x), text), FALSE))

\* the user types into the surface
HostTypeChar ==
  \E ch \in TypedChars, x \in Selections(doc) :
    StoreHost(HostTask(handleInput(BrowserType(Composed(x), ch)), TRUE))

\* Enter in the surface, during a composition or not: send
HostEnter ==
  \E isComposing \in BOOLEAN :
    StoreHost(HostTask(handleKeydown(Composed(NoSel), "Enter", FALSE, isComposing), FALSE))

\* ArrowUp in the surface: recall
HostArrowUp ==
  StoreHost(HostTask(handleKeydown(Composed(NoSel), "ArrowUp", FALSE, FALSE), FALSE))

\* the component: every task the host or the user can start
Next ==
  \/ WatchResources
  \/ SetContent
  \/ WatchModelValue
  \/ ParseContent
  \/ GetDisplayContent
  \/ KeydownEnter
  \/ KeydownArrowUp
  \/ KeydownBackspace
  \/ Paste
  \/ PasteMarker
  \/ TypeChar
  \/ ClickClose
  \/ SetCursorPosition
  \/ ContainerClick
  \/ FocusIn
  \/ FocusOut
  \/ TimePasses
  \/ BlurTimeout
  \/ HostSelectionChange
  \/ HostAnswerDone
  \/ HostClickClose
  \/ HostPaste
  \/ HostTypeChar
  \/ HostEnter
  \/ HostArrowUp

Spec == Init /\ [][Next]_vars

\* TLC explores the component through three restrictions of Next.
\* The list, the content and the structural edits: no typing, no signal keys.
NextEdit ==
  \/ WatchResources
  \/ SetContent
  \/ KeydownBackspace
  \/ Paste
  \/ ClickClose

SpecEdit == Init /\ [][NextEdit]_vars

\* The keyboard over surfaces built by list updates and typing.
NextKeys ==
  \/ WatchResources
  \/ TypeChar
  \/ KeydownEnter
  \/ KeydownArrowUp
  \/ KeydownBackspace
  \/ ClickClose

SpecKeys == Init /\ [][NextKeys]_vars

\* Storage strings of any shape against the lists.
NextParse ==
  \/ WatchResources
  \/ ParseContent
  \/ GetDisplayContent

SpecParse == Init /\ [][NextParse]_vars

\* Clipboard texts that hold markers, pasted onto surfaces the lists build.
NextPaste ==
  \/ WatchResources
  \/ Paste
  \/ PasteMarker

SpecPaste == Init /\ [][NextPaste]_vars

\* The two props of the host, each through its watcher, the caret the host
\* sets and a click on the container.
NextHost ==
  \/ WatchResources
  \/ WatchModelValue
  \/ SetCursorPosition
  \/ ContainerClick

SpecHost == Init /\ [][NextHost]_vars

\* Focus moving in and out of the surface while the list changes and tokens
\* are closed.
NextFocus ==
  \/ WatchResources
  \/ ClickClose
  \/ FocusIn
  \/ FocusOut
  \/ TimePasses
  \/ BlurTimeout

SpecFocus == Init /\ [][NextFocus]_vars

\* ChatPage and the component together: every list and every content comes
\* from ChatPage and the user, who pastes, closes tokens, sends and recalls.
NextChat ==
  \/ HostSelectionChange
  \/ HostAnswerDone
  \/ HostClickClose
  \/ HostPaste
  \/ HostEnter
  \/ HostArrowUp

SpecChat == Init /\ [][NextChat]_vars

\* ----------------------------------------------------------- observations
\* the content of a surface: its characters and its tokens, in order
ItemsOfNode(n) ==
  IF IsText(n) THEN [i \in 1..Len(n.s) |-> [t |-> "char", v |-> <<n.s[i]>>]]
  ELSE IF IsTag(n) THEN <<[t |-> "token", v |-> n.id]>>
  ELSE <<>>

Items(d) == Flatten([i \in 1..Len(d) |-> ItemsOfNode(d[i])])

\* how many times the task let out resource-removed for id rid
RemovedCount(ev, rid) ==
  Cardinality({i \in 1..Len(ev) : ev[i].e = "resource-removed" /\ ev[i].v = rid})

Emitted(e) == <<[e |-> e, v |-> <<>>]>>

\* a task started on the state another task left
After(t) == [t EXCEPT !.ev = <<>>, !.ticks = <<>>]

\* ------------------------------------------------------------------ claims
\* C1.  Reconciliation completeness: from every reachable surface and for
\* every list R of pairwise distinct ids, once updateResources(R) and its
\* deferred callbacks have run, the ids of the tokens on the surface are
\* exactly the ids of R.
C1_ReconciliationComplete ==
  \A R \in ResourceLists, x \in HostSelections(doc) :
    TokenIdSet(Task(UpdateOf(x, R)).doc) = IdsOf(R)

\* C2.  Idempotence of reconciliation: from every reachable surface and for
\* every list R, updateResources(R) run twice, as two tasks or back to back
\* in one, leaves the same tokens in the same order and the same text as
\* running it once.
C2_ReconcileIdempotent ==
  \A R \in ResourceLists, x \in HostSelections(doc) :
    LET once == Task(UpdateOf(x, R))
        again == Task(updateResources(After(once), R))
        twice == Task(updateResources(UpdateOf(x, R), R))
    IN /\ Items(again.doc) = Items(once.doc)
       /\ Items(twice.doc) = Items(once.doc)

\* a list update has just put a token on a surface that holds text: the
\* insertion emitted, the deferred callback emitted again
C2_Witness ==
  /\ resources # <<>>
  /\ TokenIdSet(doc) = IdsOf(resources)
  /\ PlainText(doc) # <<>>
  /\ events = Emitted("update:modelValue") \o Emitted("update:modelValue")

\* C3.  Token-id uniqueness: in every reachable state no resource id is
\* carried by more than one token of the surface.
C3_TokenIdsUnique ==
  \A i, j \in TagIndices(doc) : i # j => doc[i].id # doc[j].id

\* C5.  Path-based re-keying in place: when the surface holds a token t whose
\* resource in the previous list is of type code, and the new list R has no
\* resource of t's id but a code resource n with the same normalized path,
\* then after updateResources(R) the content is what it was with t carrying
\* n's id: one token for n, where t was, and the text untouched.
C5_RekeyInPlace ==
  \A i \in TagIndices(doc), R \in ResourceLists, x \in HostSelections(doc) :
    \A k \in 1..Len(R) :
      LET old == FindResource(resources, doc[i].id)
          n == R[k]
          after == Task(UpdateOf(x, R)).doc
      IN (/\ old # 0
          /\ resources[old].type = "code"
          /\ doc[i].id \notin IdsOf(R)
          /\ n.type = "code"
          /\ normalizePath(n.filePath) = normalizePath(resources[old].filePath)
          /\ n.id \notin TokenIdSet(doc)
          /\ Cardinality({j \in TagIndices(doc) : doc[j].id = doc[i].id}) = 1
          /\ ~x.on)
         => Items(after) = Items([doc EXCEPT ![i].id = n.id])

\* C4.  Round trip: for every surface whose token ids are all in the
\* resource list, setContent of its own storage string rebuilds a surface
\* with the same sequence of text and token ids.
C4_RoundTrip ==
  TokenIdSet(doc) \subseteq IdsOf(resources)
    => Items(Task(setContent(cur, getContent(cur))).doc) = Items(doc)

\* C6.  Atomic deletion: Backspace with a collapsed caret at offset 0 of the
\* text node that follows a token removes that token and, the deferred
\* cleanup included, leaves every other token and all the text as it was.
C6_AtomicDeletion ==
  \A n \in 2..Len(doc) :
    (IsText(doc[n]) /\ IsTag(doc[n - 1]))
      => Items(Task(handleKeydown(At(Caret(Pos(n, 0))), "Backspace", FALSE, FALSE)).doc)
           = Items(RemoveIndex(doc, n - 1))

\* C7.  Content synchronisation: every change of the surface is followed by
\* an update:modelValue that carries its storage string, so between two
\* tasks the last emitted value is the storage string of the surface.
C7_ContentInSync == lastEmit = getContent(cur)

\* what a user can do to the surface in one task: Backspace, a close button,
\* a paste, Ctrl+Enter, a typed character
UserEdits ==
  {handleKeydown(At(x), "Backspace", FALSE, FALSE) : x \in Selections(doc)}
  \cup {removeResource(cur, doc[i].cid) : i \in TagIndices(doc)}
  \cup {handlePaste(At(x), text) : x \in Selections(doc), text \in PasteTexts}
  \cup {handleKeydown(At(x), "Enter", TRUE, FALSE) : x \in Selections(doc)}
  \cup {handleInput(BrowserType(At(x), c)) : x \in Selections(doc), c \in TypedChars}

\* C8.  Whenever a user action takes a token off the surface (Backspace at
\* its right edge, its close button, a selection holding it deleted or
\* replaced by a paste, Ctrl+Enter or typing), resource-removed is emitted
\* exactly once with the id of that token.
C8_RemovalAnnounced ==
  \A n \in UserEdits :
    \A i \in TagIndices(doc) :
      IndexOfHandle(Settle(n).doc, doc[i].h) = 0
        => RemovedCount(Settle(n).ev, doc[i].id) = 1

\* C9.  Enter without Ctrl/Cmd outside a composition emits enter and nothing
\* else: the surface, its tokens and text, is unchanged and the key causes
\* no update:modelValue.
C9_EnterOnlySubmits ==
  \A x \in Selections(doc) \cup {NoSel} :
    LET r == Task(handleKeydown(At(x), "Enter", FALSE, FALSE))
    IN /\ r.doc = doc
       /\ r.map = resourcesMap
       /\ r.model = lastEmit
       /\ r.ev = Emitted("enter")

\* Enter was the last task, on a surface that holds a token and text
C9_Witness ==
  /\ events = Emitted("enter")
  /\ HasTags(doc)
  /\ PlainText(doc) # <<>>

\* the spans the pattern of parseContentWithResources matches in content,
\* scanning from index from
RECURSIVE MarkerSpans(_, _)
MarkerSpans(content, from) ==
  LET open == NextDelim(content, from)
      close == IF open = 0 THEN 0 ELSE NextDelim(content, open + 1)
  IN IF close = 0 THEN <<>>
     ELSE <<[open |-> open, close |-> close]>> \o MarkerSpans(content, close + 1)

\* the span m of content names no resource of the list
Unresolved(content, m) == SubSeq(content, m.open + 1, m.close - 1) \notin IdsOf(resources)

\* the literal marker of span m is a text node of d and d has no token for it
KeptAsText(content, m, d) ==
  /\ \E i \in 1..Len(d) : IsText(d[i]) /\ d[i].s = SubSeq(content, m.open, m.close)
  /\ SubSeq(content, m.open + 1, m.close - 1) \notin TokenIdSet(d)

\* the task wrote to the console
Diagnosed(ev) == \E j \in 1..Len(ev) : ev[j].e = "console"

\* C10, as the code has it.  For every storage string, each marker whose id
\* is not in the resource list stays on the surface as text equal to the
\* literal marker, without a token; the parse lets nothing out, neither an
\* event nor a line on the console.  (Nothing in the parse throws: the
\* operators are total.)
C10_UnresolvedKept ==
  \A content \in ParseInputs :
    \A m \in Range(MarkerSpans(content, 1)) :
      Unresolved(content, m)
        => /\ KeptAsText(content, m, Task(setContent(cur, content)).doc)
           /\ Task(setContent(cur, content)).ev = <<>>

\* a parse has left the marker of an unknown id as text next to a token
C10_Witness ==
  /\ \E i \in 1..Len(doc) : IsText(doc[i]) /\ doc[i].s = Marker(IdUnknown)
  /\ HasTags(doc)
  /\ events = <<>>

\* C10, as stated.  Graceful degradation on parse: for every storage string,
\* each marker whose id is not in the resource list stays on the surface as
\* text equal to the literal marker, without a token, and a diagnostic is
\* logged.
C10_UnresolvedKeptAndLogged ==
  \A content \in ParseInputs :
    \A m \in Range(MarkerSpans(content, 1)) :
      Unresolved(content, m)
        => /\ KeptAsText(content, m, Task(setContent(cur, content)).doc)
           /\ Diagnosed(Task(setContent(cur, content)).ev)

\* the characters of a text, as content
CharItems(text) == [i \in 1..Len(text) |-> [t |-> "char", v |-> <<text[i]>>]]

\* how much content of d lies before the boundary point p
ItemOffset(d, p) ==
  IF p.n = 0 THEN Len(Items(SubSeq(d, 1, p.o)))
  ELSE Len(Items(SubSeq(d, 1, p.n - 1))) + p.o

Carets(d) == {x \in Selections(d) : Collapsed(x)}

\* C11.  Paste never creates tokens: for every clipboard text, a text that
\* holds the marker of a known resource included, a paste at a collapsed
\* caret leaves the content as it was with the characters of that text put
\* in at the caret; the sequence of token ids is unchanged.
C11_PasteIsPlainText ==
  \A text \in PasteTexts \cup MarkerTexts, x \in Carets(doc) :
    LET after == Task(handlePaste(At(x), text)).doc
        k == ItemOffset(doc, x.a)
    IN /\ TokenIdSeq(after) = TokenIdSeq(doc)
       /\ Items(after) = SubSeq(Items(doc), 1, k) \o CharItems(text)
                           \o SubSeq(Items(doc), k + 1, Len(Items(doc)))

\* the marker of a resource of the list has just been pasted next to a token
C11_Witness ==
  /\ \E i \in 1..Len(doc) :
       IsText(doc[i]) /\ doc[i].s \in MarkerTexts /\ SubSeq(doc[i].s, 2, 2) \in IdsOf(resources)
  /\ HasTags(doc)
  /\ events = Emitted("update:modelValue")

\* C12.  External content: whenever props.modelValue changes to a string
\* that is not the storage string of the surface, the surface is rebuilt
\* from it, and once the watcher and its deferred callback have run the
\* storage string of the surface is the supplied string.
C12_ExternalContentApplied ==
  \A content \in ContentInputs :
    content # getContent(cur)
      => getContent(Task(watchModelValue(cur, content))) = content

\* both props change in one tick: the modelValue watcher, then the resources
\* watcher, then the callbacks either has deferred
BothWatchers(content, R) ==
  updateResources(watchModelValue([cur EXCEPT !.res = R], content), R)

\* the same two updates, the second one held back until the first is
\* through with its deferred step
Queued(content, R) ==
  updateResources(After(Task(watchModelValue([cur EXCEPT !.res = R], content))), R)

\* C13.  Serialized mutation: an update that arrives while another one is
\* being applied, its deferred step included, is not interleaved with it,
\* and no half-edited surface is observable: an update:modelValue emitted
\* while a resource-list update is being applied carries the storage string
\* of the surface that the whole update leaves, and two updates of one tick
\* leave what they leave when the second waits for the first.
C13_NoHalfEditedState ==
  /\ \A R \in ResourceLists, x \in HostSelections(doc) :
       UpdateOf(x, R).ev # <<>>
         => UpdateOf(x, R).model = getContent(Task(UpdateOf(x, R)))
  /\ \A R \in ResourceLists, content \in ContentInputs :
       Items(Task(BothWatchers(content, R)).doc) = Items(Task(Queued(content, R)).doc)

\* C14.  Composing state: during a composition no keydown (Enter, Ctrl/Cmd
\* with Enter, ArrowUp, Backspace) emits anything, removes a token or changes
\* the surface in any other way.
C14_ComposingSuspendsKeys ==
  \A x \in Selections(doc) \cup {NoSel}, key \in ComposingKeys, ctrlOrMeta \in BOOLEAN :
    LET r == Task(handleKeydown(At(x), key, ctrlOrMeta, TRUE))
    IN /\ r.doc = doc
       /\ r.map = resourcesMap
       /\ r.ev = <<>>

\* C15.  Inserting a token whose id is already on the surface is a no-op:
\* insertResourceTag leaves the tokens, their order and places and all the
\* text as they were and emits no update:modelValue.
C15_InsertPresentIsNoOp ==
  \A r \in ResourceUniverse, x \in HostSelections(doc) :
    r.id \in TokenIdSet(doc)
      => LET t == Task(insertResourceTag(At(x), r))
         IN /\ Items(t.doc) = Items(doc)
            /\ t.ev = <<>>

\* the caret p of surface d is in a text node or between two children
OutsideTokens(d, p) == ~InTag(p) /\ (p.n = 0 \/ IsText(d[p.n]))

\* C16.  Cursor index mapping: for every surface and every linear offset
\* within its flattened length, a token counting for one, setCursorPosition
\* puts a collapsed caret at the point of the surface whose linear offset,
\* taken back from the point, is that offset.
C16_CursorMapping ==
  \A position \in 0..Len(Items(doc)) :
    LET placed == setCursorPosition(cur, position).sel
    IN /\ placed.on
       /\ Collapsed(placed)
       /\ OutsideTokens(doc, placed.a)
       /\ ItemOffset(doc, placed.a) = position

\* C17.  Cursor clamping: setCursorPosition with an offset beyond the
\* flattened length of the surface puts the caret at the end of the surface,
\* wherever the caret was.
C17_CursorClamped ==
  \A position \in (Len(Items(doc)) + 1)..MaxPosition, x \in Selections(doc) \cup {NoSel} :
    LET placed == setCursorPosition(At(x), position).sel
    IN /\ placed.on
       /\ Collapsed(placed)
       /\ OutsideTokens(doc, placed.a)
       /\ ItemOffset(doc, placed.a) = Len(Items(doc))

\* C18.  Token atomicity of the caret: a caret the component places, by
\* setCursorPosition with any offset, after the insertion of a token or on a
\* click on the container, is never inside a token: it is in a text node or
\* between two children.
C18_CaretOutsideTokens ==
  /\ \A position \in 0..MaxPosition, x \in Selections(doc) \cup {NoSel} :
       LET placed == setCursorPosition(At(x), position)
       IN placed.sel.on => OutsideTokens(placed.doc, placed.sel.a)
  /\ \A r \in ResourceUniverse, x \in Selections(doc) :
       LET placed == insertResourceTag(At(x), r)
       IN OutsideTokens(placed.doc, placed.sel.a)
  /\ \A x \in Selections(doc) \cup {NoSel} :
       LET placed == handleContainerClick(At(x))
       IN placed.sel.on => OutsideTokens(placed.doc, placed.sel.a)

\* a text run: a text node that holds text
IsTextRun(n) == IsText(n) /\ n.s # <<>>

\* C19.  Text-run merge invariant: in every reachable state no two text
\* nodes of the surface are adjacent; a removed token between two text nodes,
\* a paste or an insertion inside a text node leave them merged.
C19_NoAdjacentTextRuns ==
  \A i \in 1..(Len(doc) - 1) : ~(IsTextRun(doc[i]) /\ IsTextRun(doc[i + 1]))

\* C20.  A paste whose clipboard data carries no text is ignored: the text,
\* the tokens and the content of the selection stay as they were and no
\* update:modelValue is emitted.
C20_EmptyPasteIgnored ==
  \A x \in Selections(doc) :
    LET t == Task(handlePaste(At(x), <<>>))
    IN /\ Items(t.doc) = Items(doc)
       /\ t.ev = <<>>

\* how much of the storage string of d lies before the boundary point p
StorageOffset(d, p) ==
  IF p.n = 0 THEN Len(extractTextFromNode(SubSeq(d, 1, p.o)))
  ELSE Len(extractTextFromNode(SubSeq(d, 1, p.n - 1))) + p.o

\* C21.  Ctrl/Cmd+Enter outside a composition puts one newline at the caret
\* and emits ctrl-enter, never enter; the update:modelValue it causes carries
\* the storage string with the newline at that place, and a later list
\* update with its deferred cleanup leaves that storage string as it is.
C21_CtrlEnterNewline ==
  \A x \in Carets(doc) :
    LET t == Task(handleKeydown(At(x), "Enter", TRUE, FALSE))
        k == StorageOffset(doc, x.a)
        before == getContent(cur)
        later == Task(updateResources(After(t), resources))
    IN /\ t.ev = Emitted("update:modelValue") \o Emitted("ctrl-enter")
       /\ t.model = SubSeq(before, 1, k) \o <<NEWLINE>> \o SubSeq(before, k + 1, Len(before))
       /\ getContent(later) = t.model

\* the content items kept when only the tokens of the ids in ids count
KeepTokens(items, ids) ==
  LET Kept(it) == it.t = "char" \/ it.v \in ids
  IN SelectSeq(items, Kept)

\* C23.  Minimal-change frame of reconciliation: updateResources(R), its
\* deferred step included, leaves all the text and every token whose id is
\* on the surface and in R where they are: the content restricted to the
\* text and to those tokens is the same sequence before and after.
C23_ReconcileFrame ==
  \A R \in ResourceLists, x \in HostSelections(doc) :
    LET ids == TokenIdSet(doc) \cap IdsOf(R)
    IN KeepTokens(Items(Task(UpdateOf(x, R)).doc), ids) = KeepTokens(Items(doc), ids)

\* items with the token of id rid put in after the first k of them
WithTokenAt(items, k, rid) ==
  SubSeq(items, 1, k) \o <<[t |-> "token", v |-> rid]>> \o SubSeq(items, k + 1, Len(items))

\* C24.  Placement of a new token: when the one resource of the new list R
\* that has no token has no path match either, updateResources(R) adds
\* exactly one token for it, at the end of the content when there is no
\* selection on the surface and at the caret (at either end of a selection
\* that is not collapsed) when there is one; everything else stays.
C24_NewTokenPlacement ==
  \A R \in ResourceLists, x \in Selections(doc) \cup {NoSel} :
    \A k \in 1..Len(R) :
      (/\ R[k].id \notin TokenIdSet(doc)
       /\ findTagByFilePath([At(x) EXCEPT !.res = R], R[k]) = 0
       /\ \A j \in 1..Len(R) : j # k => R[j].id \in TokenIdSet(doc)
       /\ TokenIdSet(doc) \subseteq IdsOf(R))
      => LET after == Items(Task(UpdateOf(x, R)).doc)
         IN IF x.on
            THEN \/ after = WithTokenAt(Items(doc), ItemOffset(doc, x.a), R[k].id)
                 \/ after = WithTokenAt(Items(doc), ItemOffset(doc, x.b), R[k].id)
            ELSE after = WithTokenAt(Items(doc), Len(Items(doc)), R[k].id)

\* what stands for a token of id rid in the display text under the list R
Description(R, rid) ==
  IF rid \in IdsOf(R) THEN getResourceDisplayText(R[FindResource(R, rid)])
  ELSE <<DESC_REF>> \o rid

\* the content items as display text under the list R
Rendered(items, R) ==
  Flatten([i \in 1..Len(items) |->
             IF items[i].t = "char" THEN items[i].v ELSE Description(R, items[i].v)])

\* C25.  Display rendering follows the storage traversal: for every surface
\* and every resource list the display text is the content in document
\* order, the text verbatim and each token as the description of its
\* resource, or the generic label followed by its id when the list has no
\* resource of that id.
C25_DisplayFollowsStorage ==
  \A R \in ResourceLists :
    getDisplayContent([cur EXCEPT !.res = R]) = Rendered(Items(doc), R)

\* the host has just read the display text of a surface with a token and text
C25_Witness ==
  /\ Len(events) = 1
  /\ events[1].e = "getDisplayContent"
  /\ HasTags(doc)
  /\ PlainText(doc) # <<>>

\* C27.  Explicit removal: a click on the close button of any token of the
\* surface, whatever built it or re-keyed it, removes that token and emits
\* resource-removed once with the id the token carries.
C27_CloseRemovesToken ==
  \A i \in TagIndices(doc) :
    LET t == Task(removeResource(cur, doc[i].cid))
    IN /\ Items(t.doc) = Items(RemoveIndex(doc, i))
       /\ RemovedCount(t.ev, doc[i].id) = 1

\* C28.  Index/surface consistency: between two tasks the keys of
\* resourcesMap are the ids of the tokens of the surface and each key maps
\* to the attached tag that carries it.
C28_MapMatchesSurface ==
  /\ DOMAIN resourcesMap = TokenIdSet(doc)
  /\ \A rid \in DOMAIN resourcesMap :
       /\ IndexOfHandle(doc, resourcesMap[rid]) # 0
       /\ doc[IndexOfHandle(doc, resourcesMap[rid])].id = rid

C26_BlurDebounced ==
  (blurTimers # <<>> /\ blurTimers[1].left = 0) =>
    LET f == blurTimeout(Focus, activeInside)
    IN /\ (f.ev # <<>> => ~activeInside)
       /\ (blurTimers[1].refocused => f.ev = <<>> /\ f.isFocused)

\* the ids of the tokens on the surface
TokenIds(d) == {d[i].id : i \in TagIndices(d)}

\* C29.  Host/surface agreement: whenever nothing is pending, the ids in the
\* resource list of ChatPage are the ids of the tokens shown on the surface.
C29_HostSurfaceAgree ==
  IdsOf(resources) = TokenIds(doc)

\* the task of an ArrowUp keydown in the composed system
Recall == HostTask(handleKeydown(Composed(NoSel), "ArrowUp", FALSE, FALSE), FALSE)

====
